---- MODULE Spec2Model ----
(***************************************************************************)
(* The semantic retrieval core of BookMind: EmbeddingService               *)
(* (backend/app/services/embedding_service.py) and the embedding call of   *)
(* AIService (backend/app/services/ai_service.py).                         *)
(*                                                                         *)
(* The two dictionaries of the service are the state.  Each coroutine of   *)
(* the service is a task: it runs from its call to its first `await`, and  *)
(* from the answer of the embedding backend to the next `await` or to its  *)
(* end, as one step.  Every `await ai_service.get_embeddings(..)` is       *)
(* treated as a scheduling point of the event loop, where clear_cache may  *)
(* run.  The backend answers each call with some vector or with a failure. *)
(* get_embeddings itself calls the blocking OpenAI client and holds no      *)
(* await, so the event loop of the program switches at fewer points than   *)
(* this model: what holds here holds of the program, and the runs that     *)
(* refute a property below are sequences of whole calls.                   *)
(*                                                                         *)
(* TextProcessor.chunk_text (backend/app/services/text_processor.py), the  *)
(* chunker that feeds the service, is followed one loop iteration at a     *)
(* time under SpecChunk; SpecShared runs the service with two tasks and    *)
(* two documents.                                                          *)
(***************************************************************************)
EXTENDS Integers, Sequences, FiniteSets, TLC

VARIABLES
    embeddings_cache,   \* self.embeddings_cache : file_id -> list of vectors
    chunks_cache,       \* self.chunks_cache     : file_id -> list of chunks
    pc,                 \* per task: "idle", "create_await", "find_await", "done"
    frame,              \* per task: arguments and locals of the running call
    ret,                \* per task: how the finished call ended
    chunker,            \* the running call of TextProcessor.chunk_text
    file_storage,       \* upload.file_storage : file_id -> uploaded document
    request             \* per task: the endpoint it serves and how far it is

vars == <<embeddings_cache, chunks_cache, pc, frame, ret, chunker,
          file_storage, request>>

\* the state of the endpoints
api_vars == <<file_storage, request>>

\* the state of EmbeddingService and of its tasks
service_vars == <<embeddings_cache, chunks_cache, pc, frame, ret>>

-----------------------------------------------------------------------------
(* Bounds and input domains *)

MaxChunks == 3

\* chunk_text: longest text, largest chunk_size and largest overlap tried
MaxTextLen == 5
MaxChunkSize == 4
MaxOverlap == 3

Tasks == {"t1"}

FileIds == {"d1"}

Blank == " "

\* the text of the chunk at position p of a document, when it is not blank
ChunkAt(p) == <<"a", "b", "c", "d", "e">>[p]

\* chunk lists handed to create_embeddings_for_chunks: at most MaxChunks
\* chunks, each one either blank or the text of its position
ChunkLists ==
    UNION { { c \in [1..n -> {"a", "b", "c", "d", "e", Blank}] :
                \A p \in 1..n : c[p] \in {ChunkAt(p), Blank} } : n \in 0..MaxChunks }

\* embeddings the backend can answer with
Vectors == { <<1, 0>>, <<0, 1>>, <<-1, 0>>, <<0, 0>> }

\* get_embeddings raised "Failed to generate embeddings"
Failure == [ok |-> FALSE, embedding |-> <<>>]

\* every outcome of one get_embeddings call: an embedding, or the failure
ProviderOutcomes == { [ok |-> TRUE, embedding |-> v] : v \in Vectors } \cup {Failure}

TopKs == (-1)..(MaxChunks + 1)

-----------------------------------------------------------------------------
(* Python helpers *)

Min(a, b) == IF a < b THEN a ELSE b
Max(a, b) == IF a > b THEN a ELSE b

\* Python `s[:k]`: a negative k counts from the end
SliceTo(s, k) ==
    IF k >= 0 THEN SubSeq(s, 1, Min(k, Len(s)))
              ELSE SubSeq(s, 1, Max(Len(s) + k, 0))

\* `not chunk.strip()`
IsBlank(chunk) == chunk = Blank

\* the first position >= i of a non-blank chunk, or Len(chunks) + 1
RECURSIVE NextNonBlank(_, _)
NextNonBlank(chunks, i) ==
    IF i > Len(chunks) THEN i
    ELSE IF IsBlank(chunks[i]) THEN NextNonBlank(chunks, i + 1)
    ELSE i

-----------------------------------------------------------------------------
(* _cosine_similarity *)

RECURSIVE SumProd(_, _, _)
SumProd(v, w, n) == IF n = 0 THEN 0 ELSE v[n] * w[n] + SumProd(v, w, n - 1)

\* sum(a * b for a, b in zip(vec1, vec2))
Dot(v, w) == SumProd(v, w, Min(Len(v), Len(w)))

\* math.sqrt, on the sums of squares whose root is an integer
Sqrt(n) == CHOOSE m \in 0..n : m * m = n

\* the quotient without the test of lines 132-133: for a zero magnitude
\* Python raises ZeroDivisionError, shown here as -2, a value no similarity has
cosine_similarity_unguarded(vec1, vec2) ==
    LET dot_product == Dot(vec1, vec2)
        magnitude1 == Sqrt(Dot(vec1, vec1))
        magnitude2 == Sqrt(Dot(vec2, vec2))
    IN  IF magnitude1 * magnitude2 = 0 THEN -2
        ELSE dot_product \div (magnitude1 * magnitude2)

cosine_similarity(vec1, vec2) ==
    LET dot_product == Dot(vec1, vec2)
        magnitude1 == Sqrt(Dot(vec1, vec1))
        magnitude2 == Sqrt(Dot(vec2, vec2))
    IN  IF magnitude1 = 0 \/ magnitude2 = 0 THEN 0
        ELSE dot_product \div (magnitude1 * magnitude2)

-----------------------------------------------------------------------------
(* The ranking step of find_relevant_chunks.  Positions are 1-based here,  *)
(* where Python's enumerate counts from 0.                                 *)

\* similarities: one cosine similarity per stored embedding, in order
Similarities(query_embedding, doc_embeddings) ==
    [i \in 1..Len(doc_embeddings) |->
        cosine_similarity(query_embedding, doc_embeddings[i])]

\* list(enumerate(similarities)): pairs <<position, similarity>>
Enumerate(similarities) ==
    [i \in 1..Len(similarities) |-> <<i, similarities[i]>>]

\* a sort that is not stable: x goes before the pairs of equal similarity
RECURSIVE SortInsert_unstable(_, _)
SortInsert_unstable(sorted, x) ==
    IF sorted = <<>> THEN <<x>>
    ELSE IF Head(sorted)[2] > x[2]
         THEN <<Head(sorted)>> \o SortInsert_unstable(Tail(sorted), x)
         ELSE <<x>> \o sorted

\* one insertion of list.sort(key=lambda x: x[1], reverse=True): the sort is
\* stable, so x goes behind every pair whose similarity is not smaller
RECURSIVE SortInsert(_, _)
SortInsert(sorted, x) ==
    IF sorted = <<>> THEN <<x>>
    ELSE IF Head(sorted)[2] >= x[2]
         THEN <<Head(sorted)>> \o SortInsert(Tail(sorted), x)
         ELSE <<x>> \o sorted

RECURSIVE SortDescending(_)
SortDescending(pairs) ==
    IF pairs = <<>> THEN <<>>
    ELSE SortInsert(SortDescending(SubSeq(pairs, 1, Len(pairs) - 1)),
                    pairs[Len(pairs)])

\* top_indices = [idx for idx, sim in indexed_sims[:top_k]]
TopIndices(similarities, top_k) ==
    LET indexed_sims == SliceTo(SortDescending(Enumerate(similarities)), top_k)
    IN  [n \in 1..Len(indexed_sims) |-> indexed_sims[n][1]]

\* [chunks[i] for i in top_indices if i < len(chunks)]
RECURSIVE PickChunks(_, _)
PickChunks(chunks, top_indices) ==
    IF top_indices = <<>> THEN <<>>
    ELSE (IF Head(top_indices) <= Len(chunks)
             THEN <<chunks[Head(top_indices)]>> ELSE <<>>)
         \o PickChunks(chunks, Tail(top_indices))

\* lines 88-103: the chunks returned for a query embedding
RelevantChunks(query_embedding, doc_embeddings, chunks, top_k) ==
    PickChunks(chunks,
               TopIndices(Similarities(query_embedding, doc_embeddings), top_k))

-----------------------------------------------------------------------------
(* TextProcessor.chunk_text (backend/app/services/text_processor.py) *)

\* the characters of a text, each one different so that a chunk shows the
\* range it was cut from
Letters == <<"a", "b", "c", "d", "e", "f", "g", "h">>

\* the texts: the first n letters
Texts == { SubSeq(Letters, 1, n) : n \in 0..MaxTextLen }

\* settings.CHUNK_SIZE and settings.CHUNK_OVERLAP are integers read from the
\* environment; nothing restricts them
ChunkSizes == (-1)..MaxChunkSize
Overlaps == (-1)..MaxOverlap

\* a slice bound of Python: a negative bound counts from the end, and every
\* bound is clamped to 0..n
SliceBound(i, n) == IF i < 0 THEN Max(i + n, 0) ELSE Min(i, n)

\* a slice that takes the character at `end` too
Slice_through_end(s, start, end) ==
    LET lo == SliceBound(start, Len(s))
        hi == SliceBound(end + 1, Len(s))
    IN  IF lo < hi THEN SubSeq(s, lo + 1, hi) ELSE <<>>

\* s[start:end]
Slice(s, start, end) ==
    LET lo == SliceBound(start, Len(s))
        hi == SliceBound(end, Len(s))
    IN  IF lo < hi THEN SubSeq(s, lo + 1, hi) ELSE <<>>

\* a loop test that admits start = text_length
LoopContinues_inclusive(start, text_length) == start <= text_length

\* line 124: while start < text_length
LoopContinues(start, text_length) == start < text_length

\* a step that ignores the overlap
NextStart_no_overlap(end, overlap) == end

\* line 128: start = end - overlap
NextStart(end, overlap) == end - overlap

NoCall == [pc |-> "idle", text |-> <<>>, chunk_size |-> 0, overlap |-> 0,
           start |-> 0, chunks |-> <<>>]

\* lines 120-122
Call_chunk_text(text, chunk_size, overlap) ==
    /\ chunker.pc = "idle"
    /\ chunker' = [pc |-> "loop", text |-> text, chunk_size |-> chunk_size,
                   overlap |-> overlap, start |-> 0, chunks |-> <<>>]
    /\ UNCHANGED service_vars

\* the loop of a call that never ends is followed for this many iterations
MaxIterations == MaxTextLen + 1

\* lines 124-128: one iteration of the loop
chunk_text_iteration ==
    /\ chunker.pc = "loop"
    /\ LoopContinues(chunker.start, Len(chunker.text))
    /\ Len(chunker.chunks) < MaxIterations
    /\ LET end == chunker.start + chunker.chunk_size
           chunk == Slice(chunker.text, chunker.start, end)
       IN  chunker' = [chunker EXCEPT !.chunks = Append(@, chunk),
                                      !.start = NextStart(end, chunker.overlap)]
    /\ UNCHANGED service_vars

\* lines 130-131: the loop test fails and the chunks are returned
chunk_text_return ==
    /\ chunker.pc = "loop"
    /\ ~LoopContinues(chunker.start, Len(chunker.text))
    /\ chunker' = [chunker EXCEPT !.pc = "done"]
    /\ UNCHANGED service_vars

-----------------------------------------------------------------------------
(* Tasks *)

NoFrame == [op |-> "none", file_id |-> "", chunks |-> <<>>, top_k |-> 0,
            i |-> 0, embeddings |-> <<>>]

NoRet == [outcome |-> "none", value |-> <<>>, provider |-> "none", query |-> <<>>]

\* a call that returned `value`; provider is the answer to its last
\* get_embeddings call ("none" when it made no call), query the query embedding
Returned(value, provider, query) ==
    [outcome |-> "return", value |-> value, provider |-> provider, query |-> query]

\* a call that raised to its caller
Raised(provider) ==
    [outcome |-> "raise", value |-> <<>>, provider |-> provider, query |-> <<>>]

\* a task that serves no request
NoRequest == [endpoint |-> "none", stage |-> "none", file_id |-> "",
              text_content |-> <<>>, chunks |-> <<>>, context |-> <<>>,
              status |-> 0]

Init ==
    /\ embeddings_cache = <<>>
    /\ chunks_cache = <<>>
    /\ pc = [t \in Tasks |-> "idle"]
    /\ frame = [t \in Tasks |-> NoFrame]
    /\ ret = [t \in Tasks |-> NoRet]
    /\ chunker = NoCall
    /\ file_storage = <<>>
    /\ request = [t \in Tasks |-> NoRequest]

\* d[key] = value on a Python dict
DictSet(d, key, value) ==
    [k \in (DOMAIN d) \cup {key} |-> IF k = key THEN value ELSE d[k]]

\* del d[key]
DictDel(d, key) == [k \in (DOMAIN d) \ {key} |-> d[k]]

-----------------------------------------------------------------------------
(* create_embeddings_for_chunks *)

\* a store that keeps the chunks of an entry that is already there
StoreInCache_keeps_chunks(file_id, embeddings, chunks) ==
    /\ embeddings_cache' = DictSet(embeddings_cache, file_id, embeddings)
    /\ chunks_cache' =
           IF file_id \in DOMAIN chunks_cache THEN chunks_cache
           ELSE DictSet(chunks_cache, file_id, chunks)

\* lines 48-50: both dictionaries are written with no await in between
StoreInCache(file_id, embeddings, chunks) ==
    /\ embeddings_cache' = DictSet(embeddings_cache, file_id, embeddings)
    /\ chunks_cache' = DictSet(chunks_cache, file_id, chunks)

\* the call, up to the first await: blank chunks are skipped; with no chunk
\* to embed the loop ends at once and the cache is written
Call_create(t, file_id, chunks) ==
    /\ pc[t] = "idle"
    /\ LET i == NextNonBlank(chunks, 1)
       IN  IF i > Len(chunks)
           THEN /\ StoreInCache(file_id, <<>>, chunks)
                /\ pc' = [pc EXCEPT ![t] = "done"]
                /\ frame' = [frame EXCEPT ![t] =
                       [NoFrame EXCEPT !.op = "create", !.file_id = file_id,
                                       !.chunks = chunks]]
                /\ ret' = [ret EXCEPT ![t] = Returned(<<>>, "none", <<>>)]
           ELSE /\ pc' = [pc EXCEPT ![t] = "create_await"]
                /\ frame' = [frame EXCEPT ![t] =
                       [NoFrame EXCEPT !.op = "create", !.file_id = file_id,
                                       !.chunks = chunks, !.i = i]]
                /\ UNCHANGED <<embeddings_cache, chunks_cache, ret>>

\* an except branch that keeps what was embedded so far and returns
create_except_keeps_partial(t) ==
    /\ StoreInCache(frame[t].file_id, frame[t].embeddings, frame[t].chunks)
    /\ pc' = [pc EXCEPT ![t] = "done"]
    /\ ret' = [ret EXCEPT ![t] = Returned(<<>>, "fail", <<>>)]
    /\ UNCHANGED frame

\* an except branch that removes the entry of the id before it raises
create_except_drops_entry(t) ==
    /\ embeddings_cache' = DictDel(embeddings_cache, frame[t].file_id)
    /\ chunks_cache' = DictDel(chunks_cache, frame[t].file_id)
    /\ pc' = [pc EXCEPT ![t] = "done"]
    /\ ret' = [ret EXCEPT ![t] = Raised("fail")]
    /\ UNCHANGED frame

\* lines 54-56: any exception in the body is logged and raised again
create_except(t) ==
    /\ pc' = [pc EXCEPT ![t] = "done"]
    /\ ret' = [ret EXCEPT ![t] = Raised("fail")]
    /\ UNCHANGED <<embeddings_cache, chunks_cache, frame>>

\* a build that writes the cache after each embedding
Resume_create_publishes_early(t, r) ==
    /\ pc[t] = "create_await"
    /\ IF ~r.ok
       THEN create_except(t)
       ELSE LET f == frame[t]
                embeddings == Append(f.embeddings, r.embedding)
                j == NextNonBlank(f.chunks, f.i + 1)
            IN  /\ StoreInCache(f.file_id, embeddings, f.chunks)
                /\ IF j > Len(f.chunks)
                   THEN /\ pc' = [pc EXCEPT ![t] = "done"]
                        /\ ret' = [ret EXCEPT ![t] = Returned(<<>>, "ok", <<>>)]
                        /\ UNCHANGED frame
                   ELSE /\ frame' = [frame EXCEPT ![t].i = j,
                                                  ![t].embeddings = embeddings]
                        /\ UNCHANGED <<pc, ret>>

\* the backend answered r to the embedding call for chunk i
Resume_create(t, r) ==
    /\ pc[t] = "create_await"
    /\ IF ~r.ok
       THEN create_except(t)
       ELSE LET f == frame[t]
                embeddings == Append(f.embeddings, r.embedding)
                j == NextNonBlank(f.chunks, f.i + 1)
            IN  IF j > Len(f.chunks)
                THEN /\ StoreInCache(f.file_id, embeddings, f.chunks)
                     /\ pc' = [pc EXCEPT ![t] = "done"]
                     /\ ret' = [ret EXCEPT ![t] = Returned(<<>>, "ok", <<>>)]
                     /\ UNCHANGED frame
                ELSE /\ frame' = [frame EXCEPT ![t].i = j,
                                               ![t].embeddings = embeddings]
                     /\ UNCHANGED <<embeddings_cache, chunks_cache, pc, ret>>

-----------------------------------------------------------------------------
(* find_relevant_chunks *)

\* an except branch without the fallback to the first chunks
find_except_empty(file_id, top_k, provider) == Returned(<<>>, provider, <<>>)

\* an except branch that raises again
find_except_raises(file_id, top_k, provider) == Raised(provider)

\* a fallback that answers with the last chunks of the document
find_except_last_chunks(file_id, top_k, provider) ==
    IF file_id \in DOMAIN chunks_cache
    THEN LET stored == chunks_cache[file_id]
         IN  Returned(SubSeq(stored, Max(Len(stored) - top_k, 0) + 1, Len(stored)),
                      provider, <<>>)
    ELSE Returned(<<>>, provider, <<>>)

\* a fallback that answers with the first chunks of another document
find_except_other_document(file_id, top_k, provider) ==
    LET others == (DOMAIN chunks_cache) \ {file_id}
    IN  IF others # {}
        THEN Returned(SliceTo(chunks_cache[CHOOSE o \in others : TRUE], top_k),
                      provider, <<>>)
        ELSE Returned(<<>>, provider, <<>>)

\* lines 105-110: the fallback of the except branch
find_except(file_id, top_k, provider) ==
    IF file_id \in DOMAIN chunks_cache
    THEN Returned(SliceTo(chunks_cache[file_id], top_k), provider, <<>>)
    ELSE Returned(<<>>, provider, <<>>)

\* a call that asks for the query embedding before it looks for the entry
Call_find_unchecked(t, file_id, top_k) ==
    /\ pc[t] = "idle"
    /\ frame' = [frame EXCEPT ![t] =
           [NoFrame EXCEPT !.op = "find", !.file_id = file_id, !.top_k = top_k]]
    /\ pc' = [pc EXCEPT ![t] = "find_await"]
    /\ UNCHANGED <<embeddings_cache, chunks_cache, ret>>

\* lines 76-82: the call, up to the await of the query embedding
Call_find(t, file_id, top_k) ==
    /\ pc[t] = "idle"
    /\ frame' = [frame EXCEPT ![t] =
           [NoFrame EXCEPT !.op = "find", !.file_id = file_id, !.top_k = top_k]]
    /\ IF file_id \notin DOMAIN embeddings_cache
       THEN /\ pc' = [pc EXCEPT ![t] = "done"]
            /\ ret' = [ret EXCEPT ![t] = Returned(<<>>, "none", <<>>)]
       ELSE /\ pc' = [pc EXCEPT ![t] = "find_await"]
            /\ UNCHANGED ret
    /\ UNCHANGED <<embeddings_cache, chunks_cache>>

\* lines 84-103 after the query embedding arrived; a missing key raises
\* KeyError, which the except branch handles
find_body(file_id, top_k, query_embedding) ==
    IF file_id \notin DOMAIN embeddings_cache \/ file_id \notin DOMAIN chunks_cache
    THEN find_except(file_id, top_k, "ok")
    ELSE Returned(RelevantChunks(query_embedding, embeddings_cache[file_id],
                                 chunks_cache[file_id], top_k),
                  "ok", query_embedding)

\* lines 82-110: how the pending call of task t ends when the backend
\* answers r to the embedding call for the query
find_resumed(t, r) ==
    IF ~r.ok
    THEN find_except(frame[t].file_id, frame[t].top_k, "fail")
    ELSE find_body(frame[t].file_id, frame[t].top_k, r.embedding)

\* the backend answered r to the embedding call for the query
Resume_find(t, r) ==
    /\ pc[t] = "find_await"
    /\ pc' = [pc EXCEPT ![t] = "done"]
    /\ ret' = [ret EXCEPT ![t] = find_resumed(t, r)]
    /\ UNCHANGED <<embeddings_cache, chunks_cache, frame>>

-----------------------------------------------------------------------------
(* clear_cache: a plain function, it runs between two steps of the tasks    *)

\* a delete that removes the embeddings of the entry and leaves its chunks
clear_cache_only_embeddings(file_id) ==
    /\ embeddings_cache' =
           IF file_id \in DOMAIN embeddings_cache
           THEN DictDel(embeddings_cache, file_id) ELSE embeddings_cache
    /\ UNCHANGED <<chunks_cache, pc, frame, ret>>

clear_cache(file_id) ==
    /\ embeddings_cache' =
           IF file_id \in DOMAIN embeddings_cache
           THEN DictDel(embeddings_cache, file_id) ELSE embeddings_cache
    /\ chunks_cache' =
           IF file_id \in DOMAIN chunks_cache
           THEN DictDel(chunks_cache, file_id) ELSE chunks_cache
    /\ UNCHANGED <<pc, frame, ret>>

\* the caller takes the result of a finished call; the task is free again
Return(t) ==
    /\ pc[t] = "done"
    /\ pc' = [pc EXCEPT ![t] = "idle"]
    /\ frame' = [frame EXCEPT ![t] = NoFrame]
    /\ ret' = [ret EXCEPT ![t] = NoRet]
    /\ UNCHANGED <<embeddings_cache, chunks_cache>>

-----------------------------------------------------------------------------
(* The endpoints: upload_file and delete_file (backend/app/api/endpoints/   *)
(* upload.py) and chat_with_book (backend/app/api/endpoints/chat.py).  A    *)
(* task serves one request; the coroutine of the service that the request  *)
(* awaits runs in the task's pc, frame and ret, and the endpoint goes on   *)
(* in the step in which that coroutine ends.  str(uuid.uuid4()) is taken   *)
(* as any id, an id in use included.                                       *)

\* chat.py line 51: top_k=3
ChatTopK == 3

\* text_content[:3000] of chat.py, on the scale of the texts below
ContextChars == 3

\* the uploaded documents: the cleaned text of the file and the chunks that
\* chunk_text made of it
ApiDocuments ==
    { [text_content |-> <<"p", "q", "r", "s", "t">>, chunks |-> <<"a", "b">>],
      [text_content |-> <<"u", "v">>, chunks |-> <<" ", "c">>],
      [text_content |-> <<"w">>, chunks |-> <<" ">>] }

RECURSIVE Join(_)
\* "\n\n".join(relevant_chunks)
Join(relevant_chunks) ==
    IF relevant_chunks = <<>> THEN <<>>
    ELSE IF Len(relevant_chunks) = 1 THEN relevant_chunks
    ELSE <<Head(relevant_chunks), "\n\n">> \o Join(Tail(relevant_chunks))

\* a context made of the start of the document whatever was retrieved
Context_document_start(result, text_content) ==
    SliceTo(text_content, ContextChars)

\* chat.py lines 47-63: the context made of the result of the retrieval
Context(result, text_content) ==
    IF result.outcome = "raise" THEN SliceTo(text_content, ContextChars)
    ELSE IF result.value # <<>> THEN Join(result.value)
    ELSE SliceTo(text_content, ContextChars)

\* the request of task t is answered with `status`
Respond(t, endpoint, file_id, status) ==
    request' = [request EXCEPT ![t] =
        [NoRequest EXCEPT !.endpoint = endpoint, !.stage = "end",
                          !.file_id = file_id, !.status = status]]

\* upload.py lines 101-109 and the response: the document is registered
StoreFile(t, file_id, text_content, chunks) ==
    /\ file_storage' = DictSet(file_storage, file_id,
           [text_content |-> text_content, chunks |-> chunks])
    /\ request' = [request EXCEPT ![t] =
           [NoRequest EXCEPT !.endpoint = "upload", !.stage = "end",
                             !.file_id = file_id,
                             !.text_content = text_content,
                             !.chunks = chunks, !.status = 200]]

\* upload.py lines 29-99: a file that fails a check of lines 40-77 is
\* answered 400; otherwise the build is called, up to its first await
Call_upload(t, file_id, doc, accepted) ==
    /\ pc[t] = "idle"
    /\ request[t].endpoint = "none"
    /\ IF ~accepted
       THEN /\ Respond(t, "upload", "", 400)
            /\ UNCHANGED <<service_vars, file_storage>>
       ELSE /\ Call_create(t, file_id, doc.chunks)
            /\ IF pc'[t] = "done"
               THEN StoreFile(t, file_id, doc.text_content, doc.chunks)
               ELSE /\ request' = [request EXCEPT ![t] =
                           [NoRequest EXCEPT !.endpoint = "upload",
                                             !.stage = "create",
                                             !.file_id = file_id,
                                             !.text_content = doc.text_content,
                                             !.chunks = doc.chunks]]
                    /\ UNCHANGED file_storage

\* upload.py lines 94-109: the build goes on; when it ends, by a return or
\* by an exception, which is logged, the document is registered
Resume_upload(t, r) ==
    /\ request[t].endpoint = "upload"
    /\ request[t].stage = "create"
    /\ Resume_create(t, r)
    /\ IF pc'[t] = "done"
       THEN StoreFile(t, request[t].file_id, request[t].text_content,
                      request[t].chunks)
       ELSE UNCHANGED <<file_storage, request>>

\* the request has its context and awaits ai_service.chat_with_book
AwaitResponder(t, file_id, text_content, context) ==
    request' = [request EXCEPT ![t] =
        [NoRequest EXCEPT !.endpoint = "chat", !.stage = "responder",
                          !.file_id = file_id, !.text_content = text_content,
                          !.context = context]]

\* chat.py lines 28-63, up to the first await: a short message is answered
\* 400, an unknown file_id 404; otherwise the retrieval is called
Call_chat(t, file_id, message_ok) ==
    /\ pc[t] = "idle"
    /\ request[t].endpoint = "none"
    /\ UNCHANGED file_storage
    /\ IF ~message_ok
       THEN Respond(t, "chat", file_id, 400) /\ UNCHANGED service_vars
       ELSE IF file_id \notin DOMAIN file_storage
       THEN Respond(t, "chat", file_id, 404) /\ UNCHANGED service_vars
       ELSE LET text_content == file_storage[file_id].text_content
            IN  /\ Call_find(t, file_id, ChatTopK)
                /\ IF pc'[t] = "done"
                   THEN AwaitResponder(t, file_id, text_content,
                                       Context(ret'[t], text_content))
                   ELSE request' = [request EXCEPT ![t] =
                            [NoRequest EXCEPT !.endpoint = "chat",
                                              !.stage = "find",
                                              !.file_id = file_id,
                                              !.text_content = text_content]]

\* chat.py lines 47-63: the query embedding is answered, the retrieval ends
\* and the context is made
Resume_chat(t, r) ==
    /\ request[t].endpoint = "chat"
    /\ request[t].stage = "find"
    /\ Resume_find(t, r)
    /\ AwaitResponder(t, request[t].file_id, request[t].text_content,
                      Context(ret'[t], request[t].text_content))
    /\ UNCHANGED file_storage

\* chat.py lines 73-95: the answer of ai_service.chat_with_book, or its failure
Resume_responder(t, answered) ==
    /\ request[t].endpoint = "chat"
    /\ request[t].stage = "responder"
    /\ request' = [request EXCEPT ![t].stage = "end",
                                  ![t].status = IF answered THEN 200 ELSE 500]
    /\ UNCHANGED <<service_vars, file_storage>>

\* upload.py lines 149-170: delete_file holds no await; for an unknown
\* file_id it answers 404 and changes nothing
delete_file(file_id) ==
    /\ file_id \in DOMAIN file_storage
    /\ clear_cache(file_id)
    /\ file_storage' = DictDel(file_storage, file_id)
    /\ UNCHANGED request

\* the response of task t is sent; the task is free again
EndRequest(t) ==
    /\ request[t].stage = "end"
    /\ pc' = [pc EXCEPT ![t] = "idle"]
    /\ frame' = [frame EXCEPT ![t] = NoFrame]
    /\ ret' = [ret EXCEPT ![t] = NoRet]
    /\ request' = [request EXCEPT ![t] = NoRequest]
    /\ UNCHANGED <<embeddings_cache, chunks_cache, file_storage>>

-----------------------------------------------------------------------------

Next ==
    /\ \/ \E t \in Tasks, file_id \in FileIds, chunks \in ChunkLists :
              Call_create(t, file_id, chunks)
       \/ \E t \in Tasks, r \in ProviderOutcomes : Resume_create(t, r)
       \/ \E t \in Tasks, file_id \in FileIds, top_k \in TopKs :
              Call_find(t, file_id, top_k)
       \/ \E t \in Tasks, r \in ProviderOutcomes : Resume_find(t, r)
       \/ \E file_id \in FileIds : clear_cache(file_id)
       \/ \E t \in Tasks : Return(t)
    /\ UNCHANGED <<chunker, file_storage, request>>

Spec == Init /\ [][Next]_vars

\* the chunker alone: one call of chunk_text on any text and any settings
NextChunk ==
    /\ \/ \E text \in Texts, chunk_size \in ChunkSizes, overlap \in Overlaps :
              Call_chunk_text(text, chunk_size, overlap)
       \/ chunk_text_iteration
       \/ chunk_text_return
    /\ UNCHANGED api_vars

SpecChunk == Init /\ [][NextChunk]_vars

\* the service shared by two requests and two documents: the calls of two
\* tasks interleave at their awaits, on the same file_id or on different ones
SharedTasks == {"t1", "t2"}
SharedFileIds == {"d1", "d2"}
SharedChunkLists == { <<"a", "b">>, <<"c">>, <<" ", "c">> }
SharedOutcomes == { [ok |-> TRUE, embedding |-> <<1, 0>>],
                    [ok |-> TRUE, embedding |-> <<0, 1>>], Failure }
SharedTopKs == {1, 2}

InitShared ==
    /\ embeddings_cache = <<>>
    /\ chunks_cache = <<>>
    /\ pc = [t \in SharedTasks |-> "idle"]
    /\ frame = [t \in SharedTasks |-> NoFrame]
    /\ ret = [t \in SharedTasks |-> NoRet]
    /\ chunker = NoCall
    /\ file_storage = <<>>
    /\ request = [t \in SharedTasks |-> NoRequest]

NextShared ==
    /\ \/ \E t \in SharedTasks, file_id \in SharedFileIds,
             chunks \in SharedChunkLists : Call_create(t, file_id, chunks)
       \/ \E t \in SharedTasks, r \in SharedOutcomes : Resume_create(t, r)
       \/ \E t \in SharedTasks, file_id \in SharedFileIds,
             top_k \in SharedTopKs : Call_find(t, file_id, top_k)
       \/ \E t \in SharedTasks, r \in SharedOutcomes : Resume_find(t, r)
       \/ \E file_id \in SharedFileIds : clear_cache(file_id)
       \/ \E t \in SharedTasks : Return(t)
    /\ UNCHANGED <<chunker, file_storage, request>>

SpecShared == InitShared /\ [][NextShared]_vars

\* the endpoints, served by one task at a time, over two documents
ApiTasks == {"t1"}

InitApi ==
    /\ embeddings_cache = <<>>
    /\ chunks_cache = <<>>
    /\ pc = [t \in ApiTasks |-> "idle"]
    /\ frame = [t \in ApiTasks |-> NoFrame]
    /\ ret = [t \in ApiTasks |-> NoRet]
    /\ chunker = NoCall
    /\ file_storage = <<>>
    /\ request = [t \in ApiTasks |-> NoRequest]

NextApi ==
    /\ \/ \E t \in ApiTasks, file_id \in SharedFileIds,
             doc \in ApiDocuments, accepted \in BOOLEAN :
              Call_upload(t, file_id, doc, accepted)
       \/ \E t \in ApiTasks, r \in SharedOutcomes : Resume_upload(t, r)
       \/ \E t \in ApiTasks, file_id \in SharedFileIds,
             message_ok \in BOOLEAN : Call_chat(t, file_id, message_ok)
       \/ \E t \in ApiTasks, r \in SharedOutcomes : Resume_chat(t, r)
       \/ \E t \in ApiTasks, answered \in BOOLEAN :
              Resume_responder(t, answered)
       \/ \E file_id \in SharedFileIds : delete_file(file_id)
       \/ \E t \in ApiTasks : EndRequest(t)
    /\ UNCHANGED chunker

SpecApi == InitApi /\ [][NextApi]_vars

-----------------------------------------------------------------------------
(* Vocabulary of the properties *)

\* task t holds the result of a finished call of `op`
Finished(t, op) == pc[t] = "done" /\ frame[t].op = op

\* this step ends a call of `op` by task t
Ends(t, op) == pc[t] # "done" /\ pc'[t] = "done" /\ frame'[t].op = op

\* this step is the backend's answer to the query embedding call of task t
QueryAnswered(t) == pc[t] = "find_await" /\ pc'[t] = "done"

\* the chunks stored for file_id, none when it has no entry
StoredChunks(file_id) ==
    IF file_id \in DOMAIN chunks_cache THEN chunks_cache[file_id] ELSE <<>>

\* s is the sequence of the first n elements of whole
IsPrefix(s, whole, n) ==
    /\ Len(s) = n
    /\ n <= Len(whole)
    /\ \A k \in 1..n : s[k] = whole[k]

NonBlankCount(chunks) == Cardinality({p \in 1..Len(chunks) : ~IsBlank(chunks[p])})

-----------------------------------------------------------------------------
(* C1 *)

\* C1 as stated: for an id that has an index (an entry whose chunks all have
\* their embedding), whenever the query embedding call of
\* find_relevant_chunks fails, the call returns the empty sequence.
C1_EmptyOnQueryFailure ==
    \A t \in Tasks :
        ( /\ Finished(t, "find")
          /\ ret[t].provider = "fail"
          /\ frame[t].file_id \in DOMAIN embeddings_cache
          /\ Len(embeddings_cache[frame[t].file_id])
                 = Len(StoredChunks(frame[t].file_id)) )
        => ret[t].value = <<>>

\* C1 amended: when the query embedding call fails, find_relevant_chunks
\* returns, without raising, the first top_k chunks stored for the id, in
\* document order (Python's chunks[:top_k]: a negative top_k leaves out that
\* many chunks at the end); it returns the empty sequence when the entry was
\* removed while the call was pending.
C1_FirstChunksOnQueryFailure ==
    [][\A t \in Tasks :
        (QueryAnswered(t) /\ ret'[t].provider = "fail") =>
            LET stored == StoredChunks(frame[t].file_id)
                top_k == frame[t].top_k
                n == IF top_k >= 0 THEN Min(top_k, Len(stored))
                                   ELSE Max(Len(stored) + top_k, 0)
            IN  /\ ret'[t].outcome = "return"
                /\ IsPrefix(ret'[t].value, stored, n)]_vars

\* C1, reached: a failed query embedding answered with stored chunks
C1_Witness ==
    \E t \in Tasks :
        /\ Finished(t, "find")
        /\ ret[t].provider = "fail"
        /\ ret[t].value # <<>>
        /\ ret[t].value = SubSeq(StoredChunks(frame[t].file_id), 1, Len(ret[t].value))

-----------------------------------------------------------------------------
(* C2 *)

\* C2 as stated: a build never aborts, whichever embedding calls fail: it
\* ends by returning, and its id then has an entry that keeps, in order, the
\* embeddings of the chunks whose call succeeded.
C2_BuildSurvivesFailures ==
    [][\A t \in Tasks :
        Ends(t, "create") =>
            LET file_id == frame'[t].file_id
                sofar == frame[t].embeddings
            IN  /\ ret'[t].outcome = "return"
                /\ file_id \in DOMAIN embeddings_cache'
                /\ file_id \in DOMAIN chunks_cache'
                /\ Len(sofar) <= Len(embeddings_cache'[file_id])
                /\ \A k \in 1..Len(sofar) :
                       embeddings_cache'[file_id][k] = sofar[k]]_vars

\* C2 amended: a build completes only when no embedding call fails; it then
\* stores the whole chunk list, blank chunks included, and one embedding per
\* non-blank chunk in the order of the chunks.  The first embedding call that
\* fails aborts the build: it raises and leaves both dictionaries as they
\* were, so no partial index is stored.
C2_BuildIsAllOrNothing ==
    [][\A t \in Tasks :
        Ends(t, "create") =>
            LET file_id == frame'[t].file_id
                chunks == frame'[t].chunks
                sofar == frame[t].embeddings
            IN  IF ret'[t].provider = "fail"
                THEN /\ ret'[t].outcome = "raise"
                     /\ embeddings_cache' = embeddings_cache
                     /\ chunks_cache' = chunks_cache
                ELSE /\ ret'[t].outcome = "return"
                     /\ file_id \in DOMAIN embeddings_cache'
                     /\ file_id \in DOMAIN chunks_cache'
                     /\ chunks_cache'[file_id] = chunks
                     /\ Len(embeddings_cache'[file_id]) = NonBlankCount(chunks)
                     /\ \A k \in 1..Len(sofar) :
                            embeddings_cache'[file_id][k] = sofar[k]
                     /\ \A k \in 1..Len(embeddings_cache'[file_id]) :
                            embeddings_cache'[file_id][k] \in Vectors]_vars

\* C2, reached: a build that embedded some chunks and then met a failure
C2_Witness ==
    \E t \in Tasks :
        /\ Finished(t, "create")
        /\ ret[t].provider = "fail"
        /\ ret[t].outcome = "raise"
        /\ Len(frame[t].embeddings) >= 1
        /\ Len(frame[t].embeddings) < NonBlankCount(frame[t].chunks)

-----------------------------------------------------------------------------
(* C3 *)

\* C3 as stated: when every embedding call of a build fails, the build
\* returns normally and an empty index is stored for the id.
C3_AllFailedStoresEmptyIndex ==
    [][\A t \in Tasks :
        (Ends(t, "create") /\ ret'[t].provider = "fail"
            /\ frame[t].embeddings = <<>>) =>
            /\ ret'[t].outcome = "return"
            /\ frame[t].file_id \in DOMAIN embeddings_cache'
            /\ embeddings_cache'[frame[t].file_id] = <<>>]_vars

\* C3 amended: when no embedding call of a build succeeds, the build raises
\* and stores nothing: an id without an entry still has none, and an entry
\* stored before is kept as it was.
C3_AllFailedRaises ==
    [][\A t \in Tasks :
        (Ends(t, "create") /\ ret'[t].provider = "fail"
            /\ frame[t].embeddings = <<>>) =>
            LET file_id == frame[t].file_id
            IN  /\ ret'[t].outcome = "raise"
                /\ (file_id \in DOMAIN embeddings_cache')
                       = (file_id \in DOMAIN embeddings_cache)
                /\ (file_id \in DOMAIN chunks_cache')
                       = (file_id \in DOMAIN chunks_cache)
                /\ file_id \in DOMAIN embeddings_cache =>
                       embeddings_cache'[file_id] = embeddings_cache[file_id]
                /\ file_id \in DOMAIN chunks_cache =>
                       chunks_cache'[file_id] = chunks_cache[file_id]]_vars

\* C3, reached: a build whose first embedding call failed, for an id that
\* has no entry
C3_Witness ==
    \E t \in Tasks :
        /\ Finished(t, "create")
        /\ ret[t].provider = "fail"
        /\ ret[t].outcome = "raise"
        /\ frame[t].embeddings = <<>>
        /\ frame[t].file_id \notin DOMAIN embeddings_cache

-----------------------------------------------------------------------------
(* C4 *)

\* C4: for every id of the registry the stored chunk list and the stored
\* embedding list have the same length.
C4_SameLength ==
    \A file_id \in (DOMAIN embeddings_cache) \cap (DOMAIN chunks_cache) :
        Len(chunks_cache[file_id]) = Len(embeddings_cache[file_id])

-----------------------------------------------------------------------------
(* C5 *)

\* value is a sequence of chunk texts
IsChunkSequence(value) ==
    \A k \in 1..Len(value) :
        \E p \in 1..MaxChunks : value[k] \in {ChunkAt(p), Blank}

\* C5: find_relevant_chunks never raises: whatever the registry holds,
\* whatever top_k is and whatever the backend answers to the query embedding
\* call, a pending call ends by returning a sequence of chunk texts, and
\* every finished call returned one.
C5_FindNeverRaises ==
    \A t \in Tasks :
        /\ pc[t] = "find_await" =>
               \A r \in ProviderOutcomes :
                   /\ find_resumed(t, r).outcome = "return"
                   /\ IsChunkSequence(find_resumed(t, r).value)
        /\ Finished(t, "find") =>
               /\ ret[t].outcome = "return"
               /\ IsChunkSequence(ret[t].value)

\* C5, reached: a call whose entry was removed while its query was being
\* embedded: the lookup of line 85 failed and the except branch answered
C5_Witness ==
    \E t \in Tasks :
        /\ Finished(t, "find")
        /\ ret[t].provider = "ok"
        /\ ret[t].query = <<>>
        /\ ret[t].outcome = "return"
        /\ frame[t].file_id \notin DOMAIN embeddings_cache

-----------------------------------------------------------------------------
(* C6 *)

\* C6: called for an id that has no entry in embeddings_cache,
\* find_relevant_chunks returns the empty sequence at once: it makes no
\* embedding call and leaves both dictionaries as they are.
C6_NoIndexNoProviderCall ==
    [][\A t \in Tasks :
        ( /\ pc[t] = "idle"
          /\ frame'[t].op = "find"
          /\ frame'[t].file_id \notin DOMAIN embeddings_cache ) =>
            /\ pc'[t] = "done"
            /\ ret'[t].outcome = "return"
            /\ ret'[t].value = <<>>
            /\ ret'[t].provider = "none"
            /\ embeddings_cache' = embeddings_cache
            /\ chunks_cache' = chunks_cache]_vars

\* C6, reached: a call for an id without entry that ended without an
\* embedding call
C6_Witness ==
    \E t \in Tasks :
        /\ Finished(t, "find")
        /\ ret[t].provider = "none"
        /\ ret[t].value = <<>>
        /\ frame[t].file_id \notin DOMAIN embeddings_cache

-----------------------------------------------------------------------------
(* C7 *)

\* C7: on an id whose build embedded no chunk (its stored embedding list is
\* empty), find_relevant_chunks returns the empty sequence and no error,
\* whether the query embedding call succeeds or fails.
C7_EmptyIndexReturnsEmpty ==
    [][\A t \in Tasks :
        ( /\ QueryAnswered(t)
          /\ frame[t].file_id \in DOMAIN embeddings_cache
          /\ embeddings_cache[frame[t].file_id] = <<>> ) =>
            /\ ret'[t].outcome = "return"
            /\ ret'[t].value = <<>>]_vars

-----------------------------------------------------------------------------
(* C8 *)

\* position p is ranked before position q for the similarities sims
RankedBefore(sims, p, q) ==
    \/ sims[p] > sims[q]
    \/ sims[p] = sims[q] /\ p < q

\* order lists distinct stored positions, best first, and no position left
\* out is ranked before a listed one
IsRanking(order, sims) ==
    /\ \A k \in 1..Len(order) : order[k] \in 1..Len(sims)
    /\ \A k, l \in 1..Len(order) : k < l => RankedBefore(sims, order[k], order[l])
    /\ \A p \in 1..Len(sims) :
           (\A k \in 1..Len(order) : order[k] # p) =>
               \A k \in 1..Len(order) : RankedBefore(sims, order[k], p)

\* C8: when the query embedding arrives and the id has its entry, the chunks
\* returned are those of the best stored positions, in non-increasing order
\* of cosine similarity to the query embedding, positions of equal
\* similarity in ascending order; the result is thus a function of the
\* entry, the query embedding and top_k.  With a query equal to the first
\* stored embedding, orthogonal to the second and opposite to the third,
\* top_k = 2 returns the first chunk and then the second.
C8_RankedByCosineThenPosition ==
    [][\A t \in Tasks :
        ( /\ QueryAnswered(t)
          /\ ret'[t].provider = "ok"
          /\ frame[t].file_id \in DOMAIN embeddings_cache
          /\ frame[t].file_id \in DOMAIN chunks_cache ) =>
            LET doc_embeddings == embeddings_cache[frame[t].file_id]
                chunks == chunks_cache[frame[t].file_id]
                q == ret'[t].query
                sims == [p \in 1..Len(doc_embeddings) |->
                            cosine_similarity(q, doc_embeddings[p])]
                value == ret'[t].value
            IN  /\ \E order \in [1..Len(value) -> 1..Len(doc_embeddings)] :
                       /\ IsRanking(order, sims)
                       /\ \A k \in 1..Len(value) : value[k] = chunks[order[k]]
                /\ ( /\ Len(doc_embeddings) = 3
                     /\ frame[t].top_k = 2
                     /\ sims = <<1, 0, -1>> ) => value = <<chunks[1], chunks[2]>>]_vars

\* C8, reached: its example, stored vectors equal to the query, orthogonal to it
\* and opposite to it, top_k = 2
C8_Witness ==
    \E t \in Tasks :
        /\ Finished(t, "find")
        /\ ret[t].provider = "ok"
        /\ frame[t].top_k = 2
        /\ ret[t].query = <<1, 0>>
        /\ frame[t].file_id \in DOMAIN embeddings_cache
        /\ frame[t].file_id \in DOMAIN chunks_cache
        /\ chunks_cache[frame[t].file_id] = <<"a", "b", "c">>
        /\ embeddings_cache[frame[t].file_id] = << <<1, 0>>, <<0, 1>>, <<-1, 0>> >>
        /\ ret[t].value = <<"a", "b">>

-----------------------------------------------------------------------------
(* C9 *)

\* C9: with top_k <= 0, negative values included, ranking an indexed
\* document returns the empty sequence.
C9_NonPositiveTopKReturnsEmpty ==
    \A t \in Tasks :
        (Finished(t, "find") /\ ret[t].provider = "ok" /\ frame[t].top_k <= 0)
            => ret[t].value = <<>>

-----------------------------------------------------------------------------
(* C10 *)

\* C10: with top_k > 0, ranking an entry that holds N chunks, some of them
\* embedded, returns exactly min(top_k, N) chunks.
C10_ReturnsMinTopKAndStored ==
    [][\A t \in Tasks :
        ( /\ QueryAnswered(t)
          /\ ret'[t].provider = "ok"
          /\ frame[t].top_k > 0
          /\ frame[t].file_id \in DOMAIN embeddings_cache
          /\ frame[t].file_id \in DOMAIN chunks_cache
          /\ embeddings_cache[frame[t].file_id] # <<>> ) =>
            Len(ret'[t].value)
                = Min(frame[t].top_k, Len(chunks_cache[frame[t].file_id]))]_vars

-----------------------------------------------------------------------------
(* C11 *)

\* C11: _cosine_similarity never fails on a vector of zero magnitude: for
\* every stored embedding and every query embedding, in both argument
\* orders, the result is 0 as soon as one of the two has zero magnitude, and
\* it is a similarity (between -1 and 1) in every case, so the ranking never
\* meets a division by zero.
C11_ZeroMagnitudeGivesZero ==
    \A file_id \in DOMAIN embeddings_cache :
        \A p \in 1..Len(embeddings_cache[file_id]) :
            \A q \in Vectors :
                LET e == embeddings_cache[file_id][p]
                IN  /\ cosine_similarity(q, e) \in (-1)..1
                    /\ cosine_similarity(e, q) \in (-1)..1
                    /\ (Dot(q, q) = 0 \/ Dot(e, e) = 0) =>
                           /\ cosine_similarity(q, e) = 0
                           /\ cosine_similarity(e, q) = 0

\* C11, reached: a ranking over a stored all-zero embedding that returned
\* chunks
C11_Witness ==
    \E t \in Tasks :
        /\ Finished(t, "find")
        /\ ret[t].provider = "ok"
        /\ ret[t].outcome = "return"
        /\ ret[t].query # <<>>
        /\ ret[t].value # <<>>
        /\ frame[t].file_id \in DOMAIN embeddings_cache
        /\ \E p \in 1..Len(embeddings_cache[frame[t].file_id]) :
               embeddings_cache[frame[t].file_id][p] = <<0, 0>>

-----------------------------------------------------------------------------
(* C20 *)

RECURSIVE EmbeddedPosition(_, _)
\* lines 37-43: the position in chunks of the text that line 42 passed to the
\* backend for the n-th appended embedding, the n-th chunk that is not blank
EmbeddedPosition(chunks, n) ==
    IF n = 1 THEN NextNonBlank(chunks, 1)
    ELSE NextNonBlank(chunks, EmbeddedPosition(chunks, n - 1) + 1)

\* C20: for every position i of a stored embedding list, the chunk that
\* line 100 looks up for i, chunks[i], is the text that was passed to the
\* backend to obtain embedding i, blank chunks in the list included.
C20_ChunkAtEmbeddingPositionProducedIt ==
    \A file_id \in DOMAIN embeddings_cache \cap DOMAIN chunks_cache :
        \A i \in 1..Len(embeddings_cache[file_id]) :
            /\ i <= Len(chunks_cache[file_id])
            /\ chunks_cache[file_id][i] =
                   chunks_cache[file_id][EmbeddedPosition(chunks_cache[file_id], i)]

-----------------------------------------------------------------------------
(* C12, C13, C14: chunk_text *)

\* the settings the chunker is documented for
ValidSettings(chunk_size, overlap) == 0 <= overlap /\ overlap < chunk_size

\* the settings named a configuration error
InvalidSettings(chunk_size, overlap) == chunk_size <= 0 \/ chunk_size <= overlap

\* the call of chunk_text has returned its chunks
ChunkerReturned == chunker.pc = "done"

\* the positions of the text that a chunk was cut from
RangeOf(chunk) ==
    {p \in 1..Len(chunker.text) :
        \E q \in 1..Len(chunk) : chunk[q] = chunker.text[p]}

\* every position of the text lies in some chunk
Covered ==
    \A p \in 1..Len(chunker.text) :
        \E i \in 1..Len(chunker.chunks) : p \in RangeOf(chunker.chunks[i])

\* the number of characters chunk i shares with chunk i + 1
Shared(i) ==
    Cardinality(RangeOf(chunker.chunks[i]) \cap RangeOf(chunker.chunks[i + 1]))

\* C12 as stated: with valid settings and a non-empty text the chunks cover
\* the text and every pair of consecutive chunks shares exactly `overlap`
\* characters, except the last pair, which may share fewer.
C12_ExactOverlapExceptLastPair ==
    (/\ ChunkerReturned
     /\ ValidSettings(chunker.chunk_size, chunker.overlap)
     /\ chunker.text # <<>>) =>
        /\ Covered
        /\ \A i \in 1..(Len(chunker.chunks) - 1) :
               IF i = Len(chunker.chunks) - 1
               THEN Shared(i) <= chunker.overlap
               ELSE Shared(i) = chunker.overlap

\* C12: with valid settings and a non-empty text the chunks cover the text;
\* a pair of consecutive chunks whose first chunk has the full chunk_size
\* shares exactly `overlap` characters, a pair whose first chunk was cut
\* short by the end of the text shares the length of that chunk minus
\* (chunk_size - overlap), which is fewer, and every chunk after a short
\* chunk is short too.
C12_ExactOverlapAfterFullChunks ==
    (/\ ChunkerReturned
     /\ ValidSettings(chunker.chunk_size, chunker.overlap)
     /\ chunker.text # <<>>) =>
        /\ Covered
        /\ \A i \in 1..(Len(chunker.chunks) - 1) :
               LET n == Len(chunker.chunks[i])
               IN  /\ n <= chunker.chunk_size
                   /\ IF n = chunker.chunk_size
                      THEN Shared(i) = chunker.overlap
                      ELSE /\ Shared(i) = n - (chunker.chunk_size - chunker.overlap)
                           /\ Shared(i) < chunker.overlap
                           /\ Len(chunker.chunks[i + 1]) < chunker.chunk_size

\* C12, reached: a returned chunking where a pair before the last pair shares
\* fewer than `overlap` characters
C12_Witness ==
    /\ ChunkerReturned
    /\ ValidSettings(chunker.chunk_size, chunker.overlap)
    /\ Covered
    /\ \E i \in 1..(Len(chunker.chunks) - 2) : Shared(i) < chunker.overlap

\* C13: with valid settings chunk_text returns: the loop ends within
\* len(text) iterations, with no chunk for the empty text, at least one chunk
\* for any other text, and no empty chunk.
C13_ChunksOfValidSettings ==
    ValidSettings(chunker.chunk_size, chunker.overlap) =>
        /\ \A i \in 1..Len(chunker.chunks) : chunker.chunks[i] # <<>>
        /\ chunker.pc = "loop" => chunker.start >= Len(chunker.chunks)
        /\ Len(chunker.chunks) <= Len(chunker.text)
        /\ ChunkerReturned =>
               /\ chunker.text = <<>> => chunker.chunks = <<>>
               /\ chunker.text # <<>> => Len(chunker.chunks) >= 1

\* C13, reached: the longest text returned in several chunks
C13_Witness ==
    /\ ChunkerReturned
    /\ ValidSettings(chunker.chunk_size, chunker.overlap)
    /\ Len(chunker.text) = MaxTextLen
    /\ Len(chunker.chunks) >= 2
    /\ \A i \in 1..Len(chunker.chunks) : chunker.chunks[i] # <<>>

\* C14: a call of chunk_text with chunk_size <= 0 or chunk_size <= overlap
\* fails before it does anything: it appends no chunk and it does not return
\* a chunk list.
C14_InvalidSettingsFailFast ==
    (/\ chunker.pc # "idle"
     /\ InvalidSettings(chunker.chunk_size, chunker.overlap)) =>
        /\ chunker.chunks = <<>>
        /\ ~ChunkerReturned

-----------------------------------------------------------------------------
(* C15 .. C19: two requests and two documents, under SpecShared *)

\* the entry of file_id is the same before and after the step
EntryUnchanged(file_id) ==
    /\ file_id \in DOMAIN embeddings_cache <=> file_id \in DOMAIN embeddings_cache'
    /\ file_id \in DOMAIN chunks_cache <=> file_id \in DOMAIN chunks_cache'
    /\ file_id \in DOMAIN embeddings_cache =>
           embeddings_cache'[file_id] = embeddings_cache[file_id]
    /\ file_id \in DOMAIN chunks_cache =>
           chunks_cache'[file_id] = chunks_cache[file_id]

\* file_id has no entry in either dictionary
Absent(file_id) ==
    file_id \notin DOMAIN embeddings_cache /\ file_id \notin DOMAIN chunks_cache

\* file_id has a whole entry: its chunks, and one embedding for each chunk
\* that is not blank
Complete(file_id) ==
    /\ file_id \in DOMAIN embeddings_cache
    /\ file_id \in DOMAIN chunks_cache
    /\ Len(embeddings_cache[file_id]) = NonBlankCount(chunks_cache[file_id])

\* C15: clear_cache(id) on an id with no entry changes nothing; after any
\* clear_cache(id) the id has no entry in either dictionary, so that a
\* repeated clear_cache(id) is again a call on an absent id and leaves the
\* state of the first; the entries of the other ids and the running calls
\* are left as they are.
C15_ClearCacheIdempotent ==
    [][\A file_id \in SharedFileIds :
        clear_cache(file_id) =>
            /\ file_id \notin DOMAIN embeddings_cache'
            /\ file_id \notin DOMAIN chunks_cache'
            /\ Absent(file_id) =>
                   UNCHANGED <<embeddings_cache, chunks_cache>>
            /\ \A other \in SharedFileIds \ {file_id} : EntryUnchanged(other)
            /\ UNCHANGED <<pc, frame, ret>>]_vars

\* C15, reached: the entry a pending retrieval was started on has been
\* removed, while the entry of the other document is still there
C15_Witness ==
    \E t \in SharedTasks :
        /\ pc[t] = "find_await"
        /\ Absent(frame[t].file_id)
        /\ \E other \in SharedFileIds \ {frame[t].file_id} : Complete(other)

\* C16: whatever clear_cache did while the query embedding was awaited,
\* find_relevant_chunks returns: at its resumption the entry of its id is
\* either absent from both dictionaries, and it returns the empty sequence,
\* or whole, and it returns the ranking over that entry (its first chunks if
\* the query embedding failed).
C16_FindNeverUsesHalfEntry ==
    [][\A t \in SharedTasks :
        QueryAnswered(t) =>
            LET file_id == frame[t].file_id
            IN  /\ ret'[t].outcome = "return"
                /\ Absent(file_id) \/ Complete(file_id)
                /\ Absent(file_id) => ret'[t].value = <<>>
                /\ (Complete(file_id) /\ ret'[t].provider = "ok") =>
                       ret'[t].value =
                           RelevantChunks(ret'[t].query,
                                          embeddings_cache[file_id],
                                          chunks_cache[file_id],
                                          frame[t].top_k)
                /\ (Complete(file_id) /\ ret'[t].provider = "fail") =>
                       ret'[t].value =
                           SliceTo(chunks_cache[file_id], frame[t].top_k)]_vars

\* C16, reached: the query embedding arrived after the entry was removed;
\* the call returned the empty sequence
C16_Witness ==
    \E t \in SharedTasks :
        /\ Finished(t, "find")
        /\ ret[t].provider = "ok"
        /\ ret[t].outcome = "return"
        /\ ret[t].value = <<>>
        /\ Absent(frame[t].file_id)

\* C17: an entry is written only by the step that ends a build: after every
\* step each entry is whole, a step in the middle of a build (from one
\* embedding call to the next) and a build that fails leave both
\* dictionaries as they are, and a retrieval whose query embedding arrives
\* ranks over a whole entry, the one that is stored at that moment.
C17_PublishedOnlyWhenBuilt ==
    [][/\ \A file_id \in SharedFileIds :
              \/ file_id \notin DOMAIN embeddings_cache' \cup DOMAIN chunks_cache'
              \/ /\ file_id \in DOMAIN embeddings_cache' \cap DOMAIN chunks_cache'
                 /\ Len(embeddings_cache'[file_id])
                        = NonBlankCount(chunks_cache'[file_id])
       /\ \A t \in SharedTasks :
              /\ (/\ pc[t] = "create_await" /\ pc'[t] = "create_await"
                  /\ frame'[t] # frame[t]) =>
                     UNCHANGED <<embeddings_cache, chunks_cache>>
              /\ (Ends(t, "create") /\ ret'[t].outcome = "raise") =>
                     UNCHANGED <<embeddings_cache, chunks_cache>>
              /\ (QueryAnswered(t) /\ ~Absent(frame[t].file_id)) =>
                     /\ Complete(frame[t].file_id)
                     /\ UNCHANGED <<embeddings_cache, chunks_cache>>]_vars

\* C17, reached: a retrieval answered from the previous entry of an id while
\* a new build for the same id is between two embedding calls
C17_Witness ==
    \E t \in SharedTasks, u \in SharedTasks :
        /\ pc[t] = "create_await"
        /\ Len(frame[t].embeddings) >= 1
        /\ Complete(frame[t].file_id)
        /\ chunks_cache[frame[t].file_id] # frame[t].chunks
        /\ Finished(u, "find")
        /\ frame[u].file_id = frame[t].file_id
        /\ ret[u].provider = "ok"
        /\ ret[u].value = chunks_cache[frame[t].file_id]

\* C18: the step that ends a successful build for an id leaves, as the entry
\* of that id, the chunks of this build and the embeddings of this build and
\* nothing of an earlier entry, and leaves the entries of the other ids as
\* they are; an entry changes in no other way than by such a step or by
\* its removal.
C18_BuildReplacesEntry ==
    [][/\ \A t \in SharedTasks :
              (Ends(t, "create") /\ ret'[t].outcome = "return") =>
                  LET file_id == frame[t].file_id
                  IN  /\ file_id \in DOMAIN chunks_cache'
                      /\ file_id \in DOMAIN embeddings_cache'
                      /\ chunks_cache'[file_id] = frame'[t].chunks
                      /\ Len(embeddings_cache'[file_id])
                             = NonBlankCount(frame'[t].chunks)
                      /\ \A k \in 1..Len(frame[t].embeddings) :
                             embeddings_cache'[file_id][k] = frame[t].embeddings[k]
                      /\ \A other \in SharedFileIds \ {file_id} :
                             EntryUnchanged(other)
       /\ \A file_id \in SharedFileIds :
              \/ EntryUnchanged(file_id)
              \/ file_id \notin DOMAIN embeddings_cache' \cup DOMAIN chunks_cache'
              \/ \E t \in SharedTasks :
                     /\ Ends(t, "create")
                     /\ ret'[t].outcome = "return"
                     /\ frame[t].file_id = file_id]_vars

\* C18, reached: two builds for one id have both returned, with different
\* chunk lists; the entry holds the chunks of one of them and the entry of
\* the other id is still there
C18_Witness ==
    \E t \in SharedTasks, u \in SharedTasks :
        /\ Finished(t, "create") /\ ret[t].outcome = "return"
        /\ Finished(u, "create") /\ ret[u].outcome = "return"
        /\ frame[t].file_id = frame[u].file_id
        /\ frame[t].chunks # frame[u].chunks
        /\ Complete(frame[t].file_id)
        /\ chunks_cache[frame[t].file_id] = frame[t].chunks
        /\ \E other \in SharedFileIds \ {frame[t].file_id} : Complete(other)

\* C19: a call of find_relevant_chunks that ends returns chunks of the entry
\* stored for its own id at that moment, each taken from a different
\* position of the stored chunk list.
C19_ReturnsStoredChunksOnce ==
    [][\A t \in SharedTasks :
        Ends(t, "find") =>
            LET stored == StoredChunks(frame'[t].file_id)
                value == ret'[t].value
            IN  /\ ret'[t].outcome = "return"
                /\ UNCHANGED <<embeddings_cache, chunks_cache>>
                /\ \E order \in [1..Len(value) -> 1..Len(stored)] :
                       /\ \A k \in 1..Len(value) : value[k] = stored[order[k]]
                       /\ \A k, l \in 1..Len(value) :
                              k # l => order[k] # order[l]]_vars

\* C19, reached: a retrieval returned two chunks of its document while the
\* other document holds other chunks
C19_Witness ==
    \E t \in SharedTasks :
        /\ Finished(t, "find")
        /\ ret[t].outcome = "return"
        /\ Len(ret[t].value) = 2
        /\ Complete(frame[t].file_id)
        /\ \E other \in SharedFileIds \ {frame[t].file_id} :
               /\ Complete(other)
               /\ chunks_cache[other] # chunks_cache[frame[t].file_id]

-----------------------------------------------------------------------------
(* C21 *)

\* the distance between the starts of two consecutive windows
Stride == chunker.chunk_size - chunker.overlap

\* the characters of the text from offset k * Stride, at most chunk_size of
\* them (k counts from 0)
Window(k) ==
    SubSeq(chunker.text, k * Stride + 1,
           Min(k * Stride + chunker.chunk_size, Len(chunker.text)))

\* C21: with valid settings the chunks are the windows of the text: the
\* k-th chunk (k from 0) is text[k*(size-overlap) : k*(size-overlap)+size],
\* the loop is at offset k*(size-overlap) after k chunks, the returned list
\* has a chunk for every k with k*(size-overlap) < len(text) and for no
\* other k, and every chunk after a chunk shorter than size is shorter than
\* size too.
C21_ChunksAreSlidingWindows ==
    ValidSettings(chunker.chunk_size, chunker.overlap) =>
        LET n == Len(chunker.chunks)
        IN  /\ \A k \in 0..(n - 1) :
                   /\ chunker.chunks[k + 1] = Window(k)
                   /\ k * Stride < Len(chunker.text)
            /\ chunker.start = n * Stride
            /\ ChunkerReturned => n * Stride >= Len(chunker.text)
            /\ \A k \in 1..(n - 1) :
                   Len(chunker.chunks[k]) < chunker.chunk_size =>
                       Len(chunker.chunks[k + 1]) < chunker.chunk_size

\* C21, reached: a returned chunking with overlapping windows whose first
\* chunk is full and whose last two chunks are short
C21_Witness ==
    /\ ChunkerReturned
    /\ ValidSettings(chunker.chunk_size, chunker.overlap)
    /\ chunker.overlap > 0
    /\ Len(chunker.chunks) >= 3
    /\ Len(chunker.chunks[1]) = chunker.chunk_size
    /\ \A k \in (Len(chunker.chunks) - 1)..Len(chunker.chunks) :
           Len(chunker.chunks[k]) < chunker.chunk_size

-----------------------------------------------------------------------------
(* C22 *)

\* the body of the pending call of t fails at this resumption: the query
\* embedding call failed, or the entry read at lines 85-86 is gone
FailsInBody(t) ==
    \/ ret'[t].provider = "fail"
    \/ frame[t].file_id \notin DOMAIN embeddings_cache
    \/ frame[t].file_id \notin DOMAIN chunks_cache

-----------------------------------------------------------------------------
(* C23 *)

\* this step gives the chat request of task t its context
ContextMade(t) ==
    /\ request'[t].endpoint = "chat"
    /\ request'[t].stage = "responder"
    /\ request[t].stage # "responder"

\* context is the chunks of value, in their order, with "\n\n" between them
IsJoined(context, value) ==
    /\ Len(context) = 2 * Len(value) - 1
    /\ \A k \in 1..Len(value) : context[2 * k - 1] = value[k]
    /\ \A k \in 1..(Len(value) - 1) : context[2 * k] = "\n\n"

-----------------------------------------------------------------------------
(* C24 *)

\* this step is a step of the build called by task t, other than its
\* successful end
BuildStepWithoutReturn(t) ==
    /\ frame'[t].op = "create"
    /\ frame'[t] # frame[t] \/ pc'[t] # pc[t]
    /\ ret'[t].outcome # "return"

\* C24: no step of a build before its successful end changes either
\* dictionary, so that a build that raises leaves every entry, the one of
\* its own id included, as it was, and creates none; the upload whose build
\* raised registers the document in file_storage all the same and answers
\* 200.
C24_FailedBuildLeavesRegistry ==
    [][\A t \in ApiTasks :
        /\ BuildStepWithoutReturn(t) =>
               /\ UNCHANGED <<embeddings_cache, chunks_cache>>
               /\ \A file_id \in SharedFileIds : EntryUnchanged(file_id)
        /\ (Ends(t, "create") /\ ret'[t].outcome = "raise") =>
               LET file_id == frame[t].file_id
               IN  /\ request'[t].status = 200
                   /\ file_id \in DOMAIN file_storage'
                   /\ file_storage'[file_id].text_content
                          = request[t].text_content
                   /\ file_storage'[file_id].chunks = frame[t].chunks
                   /\ \A other \in SharedFileIds \ {file_id} :
                          /\ other \in DOMAIN file_storage
                                 <=> other \in DOMAIN file_storage'
                          /\ other \in DOMAIN file_storage =>
                                 file_storage'[other] = file_storage[other]]_vars

\* C24, reached: an upload whose build raised: the document is registered
\* and has no entry, and the entry of the other document is still there
C24_Witness ==
    \E t \in ApiTasks :
        /\ request[t].endpoint = "upload"
        /\ request[t].status = 200
        /\ Finished(t, "create")
        /\ ret[t].outcome = "raise"
        /\ frame[t].file_id \in DOMAIN file_storage
        /\ Absent(frame[t].file_id)
        /\ \E other \in SharedFileIds \ {frame[t].file_id} :
               other \in DOMAIN file_storage /\ Complete(other)

-----------------------------------------------------------------------------
(* C25 *)

\* C25: in every state between two steps of the tasks, and so at every
\* await of every build and retrieval with deletes in between, the two
\* dictionaries hold the same ids.
C25_SameIds == DOMAIN embeddings_cache = DOMAIN chunks_cache

\* C25, reached: a build and a retrieval are both at their await, one id has
\* its entry in both dictionaries and the other id, removed since the
\* retrieval was called on it, is in neither
C25_Witness ==
    \E t \in SharedTasks, u \in SharedTasks :
        /\ pc[t] = "create_await"
        /\ pc[u] = "find_await"
        /\ Absent(frame[u].file_id)
        /\ \E other \in SharedFileIds :
               /\ other \in DOMAIN embeddings_cache
               /\ other \in DOMAIN chunks_cache

====
